---- MODULE Spec2Model ----
(***************************************************************************)
(* Model of the tiled inference pipeline of dejpeg-desktop                 *)
(* (src/src/app.ts, class ImageProcessor and the routes that touch it).    *)
(*                                                                         *)
(* Node runs one callback at a time, so every action below is the code     *)
(* that runs between two awaits of one async function.                     *)
(***************************************************************************)
EXTENDS Integers, Sequences, FiniteSets, TLC

(***************************************************************************)
(* Program constants (app.ts:23-26).                                       *)
(***************************************************************************)
DEFAULT_CHUNK_SIZE == 1200
SCUNET_CHUNK_SIZE == 640
DEFAULT_OVERLAP == 32
SCUNET_OVERLAP == 128

(***************************************************************************)
(* Bounds of the model.                                                    *)
(***************************************************************************)
\* image sides and tile sizes of the small generic tile policies
MaxSide == 7
MaxTile == 4
\* the longest image side planned under the two built-in policies
MaxImageDim == 2400

\* processImage calls and loadModel calls made during one run
MaxCalls == 2
MaxLoads == 2

NoPlan == [tag |-> "none"]

VARIABLES
    plan,            \* input and output of one function of the code on its own
    session,         \* ImageProcessor.session
    modelName,       \* ImageProcessor.modelName
    modelInfo,       \* ImageProcessor.modelInfo
    processing,      \* ImageProcessor.processing, the busy flag
    processingState, \* ImageProcessor.processingState
    staging,         \* the staging directories and files under TEMP_FOLDER
    req,             \* the processImage calls: position and locals of each
    ld               \* the loadModel calls: position and locals of each

procVars == <<session, modelName, modelInfo, processing, processingState,
              staging, req, ld>>
vars == <<plan, session, modelName, modelInfo, processing, processingState,
          staging, req, ld>>

(***************************************************************************)
(* Tile policies.  A model name is the sequence of its characters, so that *)
(* startsWith is computed and not assumed.                                 *)
(***************************************************************************)
ScunetPrefix == <<"s", "c", "u", "n", "e", "t", "_">>

NameFbcnn == <<"f", "b", "c", "n", "n">>
NameScunet == <<"s", "c", "u", "n", "e", "t", "_", "c">>
NameScunetBare == <<"s", "c", "u", "n", "e", "t">>

ModelNames == {NameFbcnn, NameScunet, NameScunetBare}

\* the value of modelName when no model is loaded (null); no real name, whose
\* elements are single characters, equals it
NullName == <<"null">>

\* String.prototype.startsWith
StartsWith(s, p) ==
    /\ Len(s) >= Len(p)
    /\ \A i \in 1..Len(p) : s[i] = p[i]

\* modelName && modelName.startsWith('scunet_'): null and '' are falsy
IsScunet(name) ==
    /\ name # NullName
    /\ Len(name) > 0
    /\ StartsWith(name, ScunetPrefix)

getChunkSizeForModel(name) ==
    IF IsScunet(name) THEN SCUNET_CHUNK_SIZE ELSE DEFAULT_CHUNK_SIZE

getOverlapForModel(name) ==
    IF IsScunet(name) THEN SCUNET_OVERLAP ELSE DEFAULT_OVERLAP

(***************************************************************************)
(* createChunks (app.ts:413-464): the tile planner.                        *)
(***************************************************************************)
Min(a, b) == IF a <= b THEN a ELSE b
Max(a, b) == IF a >= b THEN a ELSE b

\* Math.floor in the place of Math.ceil
FloorDiv(a, b) == a \div b

\* Math.ceil(a / b) for a >= 0, b > 0
CeilDiv(a, b) == (a + b - 1) \div b

\* no expansion into the overlap band
NoHalfOverlap(overlap) == 0

\* Math.floor(overlap / 2)
HalfOverlap(overlap) == overlap \div 2

\* the tile origin left at the grid origin, the size computed as in the code
ChunkAtGridOrigin(row, col, width, height, chunkSize, overlap) ==
    LET startX == col * (chunkSize - overlap)
        startY == row * (chunkSize - overlap)
        w1 == Min(chunkSize + (IF col > 0 THEN HalfOverlap(overlap) ELSE 0),
                  width - startX)
        h1 == Min(chunkSize + (IF row > 0 THEN HalfOverlap(overlap) ELSE 0),
                  height - startY)
    IN  [x |-> startX, y |-> startY, width |-> w1, height |-> h1,
         originalStartX |-> startX, originalStartY |-> startY,
         row |-> row, col |-> col]

\* the body of the two loops for one grid cell (app.ts:427-437, 449-459)
ChunkAt(row, col, width, height, chunkSize, overlap) ==
    LET startX == col * (chunkSize - overlap)
        startY == row * (chunkSize - overlap)
        chunkX == Max(0, startX - (IF col > 0 THEN HalfOverlap(overlap) ELSE 0))
        chunkY == Max(0, startY - (IF row > 0 THEN HalfOverlap(overlap) ELSE 0))
        w1 == Min(chunkSize + (IF col > 0 THEN HalfOverlap(overlap) ELSE 0),
                  width - chunkX)
        h1 == Min(chunkSize + (IF row > 0 THEN HalfOverlap(overlap) ELSE 0),
                  height - chunkY)
    IN  [x |-> chunkX, y |-> chunkY,
         width |-> Min(w1, width - chunkX),
         height |-> Min(h1, height - chunkY),
         originalStartX |-> startX, originalStartY |-> startY,
         row |-> row, col |-> col]

GridCols(width, chunkSize, overlap) == CeilDiv(width, chunkSize - overlap)
GridRows(height, chunkSize, overlap) == CeilDiv(height, chunkSize - overlap)

\* the skip taken for rectangles one pixel wide or high as well
DegenerateOrThin(chunk) == chunk.width <= 1 \/ chunk.height <= 1

\* if (chunkWidth <= 0 || chunkHeight <= 0) continue;  (app.ts:439)
Degenerate(chunk) == chunk.width <= 0 \/ chunk.height <= 0

\* the chunks array createChunks returns: the grid cells row-major, the
\* degenerate ones left out
CreateChunks(width, height, chunkSize, overlap) ==
    LET cols == GridCols(width, chunkSize, overlap)
        rows == GridRows(height, chunkSize, overlap)
        cells == [i \in 1..(rows * cols) |->
                     ChunkAt((i - 1) \div cols, (i - 1) % cols,
                             width, height, chunkSize, overlap)]
    IN  SelectSeq(cells, LAMBDA c : ~Degenerate(c))

\* >= in the place of >
NeedsChunkingFrom(width, height, chunkSize) ==
    width >= chunkSize \/ height >= chunkSize

\* width > effectiveChunkSize || height > effectiveChunkSize  (app.ts:328)
NeedsChunking(width, height, chunkSize) ==
    width > chunkSize \/ height > chunkSize

(***************************************************************************)
(* The processor (app.ts:163-173) and its surroundings after construction. *)
(***************************************************************************)
Calls == 1..MaxCalls
Loads == 1..MaxLoads

NoSession == [id |-> 0, model |-> NullName]
NoInfo == [session |-> 0, model |-> NullName]

\* the ProcessingState literal of app.ts:168-173 and 312-317
FreshState == [totalChunks |-> 0, completedChunks |-> 0,
               currentImage |-> 1, totalImages |-> 1]

\* the model files loadModel and the delete route are called with.  Uploads,
\* deletions and the user put files into UPLOAD_FOLDER and take them out, so
\* whether a path exists is decided when loadModel looks (app.ts:181).
LoadPaths == {NameFbcnn, NameScunet}

\* the arguments processImage is called with: the image as <<width, height>>
\* and whether a progress callback is passed
Inputs == {[image |-> <<500, 500>>, progress |-> FALSE],
           [image |-> <<500, 500>>, progress |-> TRUE],
           [image |-> <<1200, 640>>, progress |-> TRUE],
           [image |-> <<1201, 500>>, progress |-> TRUE],
           [image |-> <<2000, 2000>>, progress |-> TRUE]}

\* a processImage call: its position (pc), its arguments (image, progress),
\* its locals (chunked, chunks, the loop index i, the policy values it read)
\* and what it did (the progress callbacks in log, the tiles handed to the
\* executor in runs and the sessions that ran them, planned and composed once
\* createChunks and the compositor were called, what the try block of
\* processImageWithChunking ended with in primary, how the call settled)
IdleReq == [pc |-> "idle", accepted |-> FALSE, image |-> <<0, 0>>,
            progress |-> FALSE, chunked |-> FALSE, chunks |-> <<>>, i |-> 0,
            decideSize |-> 0, planSize |-> 0, planOverlap |-> 0,
            featherOverlap |-> 0, log |-> <<>>, runs |-> <<>>, sessions |-> {},
            planned |-> FALSE, composed |-> FALSE, primary |-> "none",
            result |-> "none", error |-> "none", cleanupThrew |-> FALSE]

\* a loadModel call: its position (pc), its argument (path), and, once it has
\* failed, where it failed (cause) and the error it threw
IdleLoad == [pc |-> "idle", path |-> NullName, cause |-> "none",
             error |-> "none"]

ProcInit ==
    /\ session = NoSession
    /\ modelName = NullName
    /\ modelInfo = NoInfo
    /\ processing = FALSE
    /\ processingState = FreshState
    /\ staging = [dirs |-> {}, files |-> {}]
    /\ req = [c \in Calls |-> IdleReq]
    /\ ld = [l \in Loads |-> IdleLoad]

(***************************************************************************)
(* loadModel (app.ts:175-204) and the unload of POST /api/delete_model     *)
(* (app.ts:816-838).                                                       *)
(***************************************************************************)
\* a processImage or loadModel promise has settled and its caller has not
\* yet run: the caller's continuation is a microtask and runs before any
\* other callback
Settled(c) == req[c].pc \in {"returned", "thrown"}
LoadSettled(l) == ld[l].pc \in {"done", "failed"}
NoneSettled ==
    /\ \A c \in Calls : ~Settled(c)
    /\ \A l \in Loads : ~LoadSettled(l)

\* calls are made in the order of their numbers
LoadsInOrder(l) == \A k \in Loads : k < l => ld[k].pc # "idle"
CallsInOrder(c) == \A k \in Calls : k < c => req[k].pc # "idle"

\* the error loadModel throws: the ModelLoadError of app.ts:182 for a
\* missing file; whatever InferenceSession.create or analyzeModelInputs
\* threw otherwise, rethrown as it is (app.ts:202)
ThrownBy(cause) ==
    CASE cause = "missing" -> "ModelLoadError"
      [] cause = "engine" -> "EngineError"
      [] cause = "introspection" -> "TypeError"

\* a catch block that leaves the ModelInfo of the model loaded before
LoadFailedKeepingInfo(l, path, cause) ==
    /\ session' = NoSession
    /\ modelName' = NullName
    /\ UNCHANGED modelInfo
    /\ ld' = [ld EXCEPT ![l] = [pc |-> "failed", path |-> path,
                                cause |-> cause, error |-> ThrownBy(cause)]]

\* the catch block of loadModel (app.ts:197-203)
LoadFailed(l, path, cause) ==
    /\ session' = NoSession
    /\ modelName' = NullName
    /\ modelInfo' = NoInfo
    /\ ld' = [ld EXCEPT ![l] = [pc |-> "failed", path |-> path,
                                cause |-> cause, error |-> ThrownBy(cause)]]

\* app.ts:176-186: up to the await of InferenceSession.create
LoadStart(l) ==
    /\ NoneSettled
    /\ ld[l].pc = "idle"
    /\ LoadsInOrder(l)
    /\ \E path \in LoadPaths, exists \in BOOLEAN :
         IF ~exists
         THEN LoadFailed(l, path, "missing")
         ELSE /\ session' = NoSession
              /\ ld' = [ld EXCEPT ![l] = [IdleLoad EXCEPT !.pc = "creating",
                                                          !.path = path]]
              /\ UNCHANGED <<modelName, modelInfo>>
    /\ UNCHANGED <<plan, processing, processingState, staging, req>>

\* app.ts:186-192: InferenceSession.create settles; on success the session
\* and the name are stored and analyzeModelInputs runs up to its first trial
LoadCreated(l) ==
    /\ NoneSettled
    /\ ld[l].pc = "creating"
    /\ \E ok \in BOOLEAN :
         IF ok
         THEN /\ session' = [id |-> l, model |-> ld[l].path]
              /\ modelName' = ld[l].path
              /\ ld' = [ld EXCEPT ![l].pc = "analyzing"]
              /\ UNCHANGED modelInfo
         ELSE LoadFailed(l, ld[l].path, "engine")
    /\ UNCHANGED <<plan, processing, processingState, staging, req>>

\* app.ts:265-299 and 192-196: the trial inferences are over;
\* analyzeModelInputs reads this.session.inputNames and returns the ModelInfo
LoadAnalyzed(l) ==
    /\ NoneSettled
    /\ ld[l].pc = "analyzing"
    /\ IF session = NoSession
       THEN LoadFailed(l, ld[l].path, "introspection")
       ELSE /\ modelInfo' = [session |-> session.id, model |-> session.model]
            /\ ld' = [ld EXCEPT ![l].pc = "done"]
            /\ UNCHANGED <<session, modelName>>
    /\ UNCHANGED <<plan, processing, processingState, staging, req>>

\* app.ts:816-838: the file is removed and, if it is the loaded model, the
\* processor is unloaded
DeleteModel ==
    /\ NoneSettled
    /\ \E name \in LoadPaths :
         IF modelName = name
         THEN /\ session' = NoSession
              /\ modelName' = NullName
              /\ modelInfo' = NoInfo
         ELSE UNCHANGED <<session, modelName, modelInfo>>
    /\ UNCHANGED <<plan, processing, processingState, staging, req, ld>>

\* the caller of loadModel takes the settled promise (app.ts:691-717); the
\* locals of the call are gone, how it ended is remembered
LoadReturn(l) ==
    /\ LoadSettled(l)
    /\ ld' = [ld EXCEPT ![l] = [IdleLoad EXCEPT !.pc = "closed",
                                                !.cause = ld[l].cause]]
    /\ UNCHANGED <<plan, session, modelName, modelInfo, processing,
                   processingState, staging, req>>

(***************************************************************************)
(* The staging area of one chunked request and its removal                 *)
(* (app.ts:349-355, 395-410, clearTempDir 101-109).                        *)
(***************************************************************************)
ChunkDir(sid) == <<"chunks", sid>>
ProcessedDir(sid) == <<"processed", sid>>
StagedFile(dir, chunk) == <<dir[1], dir[2], chunk.x, chunk.y>>
FilesIn(st, dir) == {f \in st.files : f[1] = dir[1] /\ f[2] = dir[2]}
StagingOf(st, sid) ==
    [dirs |-> {d \in st.dirs : d[2] = sid},
     files |-> {f \in st.files : f[2] = sid}]

\* what can happen while the finally block removes staging: nothing, or the
\* removal of the chunk directory or of the processed directory throws (at
\* its rmdirSync, after its files were unlinked)
CleanupOutcomes == {"ok", "rmdirChunk", "rmdirProcessed"}

\* the outcome names an operation the finally block does execute
CleanupPossible(st, sid, out) ==
    CASE out = "ok" -> TRUE
      [] out = "rmdirChunk" -> ChunkDir(sid) \in st.dirs
      [] out = "rmdirProcessed" -> ProcessedDir(sid) \in st.dirs

\* clearTempDir(dir) without failure
ClearedDir(st, dir) == [st EXCEPT !.files = st.files \ FilesIn(st, dir)]
\* clearTempDir(dir); fs.rmdirSync(dir) without failure, if dir exists
RemovedDir(st, dir) ==
    IF dir \in st.dirs
    THEN [dirs |-> st.dirs \ {dir}, files |-> st.files \ FilesIn(st, dir)]
    ELSE st

\* the staging area after the try block of the finally (app.ts:396-406)
AfterCleanup(st, sid, out) ==
    CASE out = "ok" -> RemovedDir(RemovedDir(st, ChunkDir(sid)), ProcessedDir(sid))
      [] out = "rmdirChunk" -> ClearedDir(st, ChunkDir(sid))
      [] out = "rmdirProcessed" ->
            ClearedDir(RemovedDir(st, ChunkDir(sid)), ProcessedDir(sid))

\* the cleanup error leaves the finally block
AfterFinallyRethrowing(primary, cleanupThrew) ==
    IF cleanupThrew THEN "cleanup" ELSE primary

\* what processImageWithChunking settles with once its finally block is
\* over: the catch of app.ts:407-409 swallows the cleanup error, so it is
\* what the try block settled with
AfterFinally(primary, cleanupThrew) == primary

(***************************************************************************)
(* processImage (app.ts:302-346), processImageWithChunking (348-411) and   *)
(* processChunk (466-552).                                                 *)
(***************************************************************************)
\* progress is reported after tiles only, not when the tile count is known
CallbackAfterTiles(r, st) ==
    IF r.progress /\ st.completedChunks > 0
    THEN [r EXCEPT !.log = Append(@, <<st.totalChunks, st.completedChunks>>)]
    ELSE r

\* if (onProgress) onProgress(this.processingState)
Callback(r, st) ==
    IF r.progress
    THEN [r EXCEPT !.log = Append(@, <<st.totalChunks, st.completedChunks>>)]
    ELSE r

\* how the promise of processImage settles with the given outcome of its try
\* block: an image is returned, anything else is thrown (app.ts:340-345)
SettledReq(r, outcome) ==
    IF outcome = "image"
    THEN [r EXCEPT !.pc = "returned", !.result = "image"]
    ELSE [r EXCEPT !.pc = "thrown", !.error = outcome]

\* the busy check left out
NeverBusy == FALSE

\* if (this.processing) throw ...  (app.ts:307-309)
Busy == processing

\* the flag reset on the returning path only, not in a finally block
BusyUnlessReturned(outcome) == outcome # "image"

\* the busy flag once the call has settled with the given outcome:
\* finally { this.processing = false }  (app.ts:343-345)
BusyAfterSettle(outcome) == FALSE

\* the try block of processImage throws outside processImageWithChunking
ThrowPlain(c, r, err) ==
    /\ req' = [req EXCEPT ![c] = SettledReq(r, err)]
    /\ processing' = BusyAfterSettle(err)
    /\ UNCHANGED staging

\* processImageWithChunking leaves its try block with the given outcome and
\* staging area st: its finally block runs, then the finally of processImage
LeaveChunked(c, r, st, outcome) ==
    \E out \in CleanupOutcomes :
        /\ CleanupPossible(st, c, out)
        /\ staging' = AfterCleanup(st, c, out)
        /\ req' = [req EXCEPT ![c] =
                     SettledReq([r EXCEPT !.cleanupThrew = (out # "ok"),
                                          !.primary = outcome],
                                AfterFinally(outcome, out # "ok"))]
        /\ processing' = BusyAfterSettle(AfterFinally(outcome, out # "ok"))

Throw(c, r, err) ==
    IF r.chunked THEN LeaveChunked(c, r, staging, err) ELSE ThrowPlain(c, r, err)

\* the executor call is made a second time before the request gives up
RetryInference(c, r) ==
    IF Len(r.runs) < 2 \/ r.runs[Len(r.runs) - 1] # r.i
    THEN /\ req' = [req EXCEPT ![c] = [r EXCEPT !.runs = Append(@, r.i)]]
         /\ UNCHANGED <<processing, staging>>
    ELSE Throw(c, r, "inference")

\* the executor call of processChunk rejects (app.ts:527): nothing catches it
\* before the finally blocks, so the request is over
OnInferenceFailure(c, r) == Throw(c, r, "inference")

\* processChunk is called (app.ts:467-473): it throws without a model, else
\* awaits the raw pixels; st is the staging area at the call
EnterProcessChunk(c, r, st) ==
    IF session = NoSession \/ modelInfo = NoInfo
    THEN IF r.chunked
         THEN LeaveChunked(c, r, st, "No model loaded")
         ELSE ThrowPlain(c, r, "No model loaded")
    ELSE /\ req' = [req EXCEPT ![c] = [r EXCEPT !.pc = "prep"]]
         /\ staging' = st
         /\ UNCHANGED processing

\* reassembleChunksWithFeathering is called (app.ts:392, 554-572)
EnterReassemble(r) ==
    [r EXCEPT !.pc = "compose", !.composed = TRUE,
              !.featherOverlap = getOverlapForModel(modelName)]

\* the progress state initialised before the guards instead of after them
RejectAtEntryResetting(c, err) ==
    /\ req' = [req EXCEPT ![c] = SettledReq(req[c], err)]
    /\ processingState' = FreshState
    /\ UNCHANGED processing

\* throw new ImageProcessingError(..., 'init') at app.ts:304 and 308: the
\* call is over before it has assigned anything
RejectAtEntry(c, err) ==
    /\ req' = [req EXCEPT ![c] = SettledReq(req[c], err)]
    /\ UNCHANGED <<processing, processingState>>

\* app.ts:302-317: the entry of processImage.  A rejected call has read none
\* of its arguments, so they are recorded for the accepted ones only.
Enter(c) ==
    /\ NoneSettled
    /\ req[c].pc = "idle"
    /\ CallsInOrder(c)
    /\ IF session = NoSession \/ modelInfo = NoInfo
       THEN RejectAtEntry(c, "No model loaded init")
       ELSE IF Busy
       THEN RejectAtEntry(c, "busy init")
       ELSE /\ processing' = TRUE
            /\ processingState' = FreshState
            /\ \E in \in Inputs :
                 req' = [req EXCEPT ![c] =
                           [req[c] EXCEPT !.pc = "decode", !.accepted = TRUE,
                                          !.image = in.image,
                                          !.progress = in.progress]]
    /\ UNCHANGED <<plan, session, modelName, modelInfo, staging, ld>>

\* app.ts:320-336 and 349-357: the image metadata arrive; the request goes
\* the chunked way (staging directories made) or the single-tile way
Decoded(c) ==
    /\ NoneSettled
    /\ req[c].pc = "decode"
    /\ \E ok \in BOOLEAN :
         LET size == getChunkSizeForModel(modelName)
             r == [req[c] EXCEPT !.decideSize = size]
         IN
         IF ~ok
         THEN /\ ThrowPlain(c, req[c], "decode")
              /\ UNCHANGED processingState
         ELSE IF NeedsChunking(r.image[1], r.image[2], size)
         THEN /\ UNCHANGED processingState
              /\ \E mk \in {"ok", "failChunkDir", "failProcessedDir"} :
                   LET rc == [r EXCEPT !.chunked = TRUE]
                       st1 == [staging EXCEPT !.dirs = @ \cup {ChunkDir(c)}]
                       st2 == [st1 EXCEPT !.dirs = @ \cup {ProcessedDir(c)}]
                   IN
                   CASE mk = "ok" ->
                          /\ staging' = st2
                          /\ req' = [req EXCEPT ![c] = [rc EXCEPT !.pc = "plan"]]
                          /\ UNCHANGED processing
                     [] mk = "failChunkDir" -> LeaveChunked(c, rc, staging, "mkdir")
                     [] mk = "failProcessedDir" -> LeaveChunked(c, rc, st1, "mkdir")
         ELSE /\ processingState' = [processingState EXCEPT !.totalChunks = 1]
              /\ EnterProcessChunk(c, Callback(r, processingState'), staging)
    /\ UNCHANGED <<plan, session, modelName, modelInfo, ld>>

\* app.ts:361-373: createChunks has returned r.chunks
AfterCreateChunks(c, r, st) ==
    /\ processingState' = [processingState EXCEPT
                             !.totalChunks = Len(r.chunks),
                             !.completedChunks = 0]
    /\ staging' = st
    /\ UNCHANGED processing
    /\ LET r1 == Callback(r, processingState') IN
       req' = [req EXCEPT ![c] =
                 IF Len(r.chunks) > 0
                 THEN [r1 EXCEPT !.pc = "tileLoad", !.i = 1]
                 ELSE EnterReassemble(r1)]

\* app.ts:357, 416-423: the image is decoded again and createChunks reads
\* the tile policy of the model loaded at that time
PlanTiles(c) ==
    /\ NoneSettled
    /\ req[c].pc = "plan"
    /\ \E ok \in BOOLEAN :
         IF ~ok
         THEN /\ LeaveChunked(c, req[c], staging, "chunking")
              /\ UNCHANGED processingState
         ELSE LET size == getChunkSizeForModel(modelName)
                  overlap == getOverlapForModel(modelName)
                  r == [req[c] EXCEPT
                          !.planned = TRUE, !.planSize = size,
                          !.planOverlap = overlap,
                          !.chunks = CreateChunks(req[c].image[1],
                                                  req[c].image[2], size, overlap)]
              IN  IF Len(r.chunks) > 0
                  THEN /\ req' = [req EXCEPT ![c] = [r EXCEPT !.pc = "extract"]]
                       /\ UNCHANGED <<processing, processingState, staging>>
                  ELSE AfterCreateChunks(c, r, staging)
    /\ UNCHANGED <<plan, session, modelName, modelInfo, ld>>

\* app.ts:425-461: the loop of createChunks, which extracts each tile and
\* saves it to the chunk directory.  Nothing the loop reads or writes is
\* touched by another callback, so its awaits are taken in one step; the
\* first k tiles are staged and, when k is not the last, the next one fails.
Extract(c) ==
    /\ NoneSettled
    /\ req[c].pc = "extract"
    /\ \E k \in 0..Len(req[c].chunks) :
         LET r == req[c]
             st == [staging EXCEPT
                      !.files = @ \cup {StagedFile(ChunkDir(c), r.chunks[j]) :
                                          j \in 1..k}]
         IN
         IF k < Len(r.chunks)
         THEN /\ LeaveChunked(c, r, st, "extract")
              /\ UNCHANGED processingState
         ELSE AfterCreateChunks(c, r, st)
    /\ UNCHANGED <<plan, session, modelName, modelInfo, ld>>

\* app.ts:373-382: the tile is read back from its file and handed to
\* processChunk
TileLoad(c) ==
    /\ NoneSettled
    /\ req[c].pc = "tileLoad"
    /\ \E ok \in BOOLEAN :
         IF ~ok
         THEN LeaveChunked(c, req[c], staging, "load")
         ELSE EnterProcessChunk(c, req[c], staging)
    /\ UNCHANGED <<plan, session, modelName, modelInfo, processingState, ld>>

\* app.ts:470-527: the raw pixels arrive, the tensor is built from
\* this.modelInfo and this.session.run is called
Prep(c) ==
    /\ NoneSettled
    /\ req[c].pc = "prep"
    /\ \E ok \in BOOLEAN :
         IF ~ok
         THEN Throw(c, req[c], "raw")
         ELSE IF modelInfo = NoInfo \/ session = NoSession
         THEN Throw(c, req[c], "TypeError")
         ELSE /\ req' = [req EXCEPT ![c] =
                           [req[c] EXCEPT
                              !.pc = "run",
                              !.runs = Append(@, req[c].i),
                              !.sessions = @ \cup {session.id}]]
              /\ UNCHANGED <<processing, staging>>
    /\ UNCHANGED <<plan, session, modelName, modelInfo, processingState, ld>>

\* app.ts:527-551: the executor call settles; its output is decoded and
\* handed to the PNG encoder
Run(c) ==
    /\ NoneSettled
    /\ req[c].pc = "run"
    /\ \E ok \in BOOLEAN :
         IF ~ok
         THEN OnInferenceFailure(c, req[c])
         ELSE IF session = NoSession
         THEN Throw(c, req[c], "TypeError")
         ELSE /\ req' = [req EXCEPT ![c].pc =
                           IF req[c].chunked THEN "save" ELSE "encode"]
              /\ UNCHANGED <<processing, staging>>
    /\ UNCHANGED <<plan, session, modelName, modelInfo, processingState, ld>>

\* app.ts:545-551 and 334-338: the single tile is encoded and the request
\* returns it
Encode(c) ==
    /\ NoneSettled
    /\ req[c].pc = "encode"
    /\ \E ok \in BOOLEAN :
         IF ~ok
         THEN /\ ThrowPlain(c, req[c], "encode")
              /\ UNCHANGED processingState
         ELSE /\ processingState' = [processingState EXCEPT !.completedChunks = 1]
              /\ req' = [req EXCEPT ![c] =
                           SettledReq(Callback(req[c], processingState'), "image")]
              /\ processing' = BusyAfterSettle("image")
              /\ UNCHANGED staging
    /\ UNCHANGED <<plan, session, modelName, modelInfo, ld>>

\* app.ts:545-551 and 384-392: the processed tile is encoded and saved (two
\* awaits between which nothing shared is read), progress is reported, and
\* the loop goes on or the compositor is called
Save(c) ==
    /\ NoneSettled
    /\ req[c].pc = "save"
    /\ \E out \in {"ok", "encode", "save"} :
         LET r == req[c] IN
         IF out # "ok"
         THEN /\ LeaveChunked(c, r, staging, out)
              /\ UNCHANGED processingState
         ELSE /\ staging' = [staging EXCEPT
                               !.files = @ \cup {StagedFile(ProcessedDir(c),
                                                            r.chunks[r.i])}]
              /\ processingState' =
                   [processingState EXCEPT !.completedChunks = @ + 1]
              /\ UNCHANGED processing
              /\ LET r1 == Callback(r, processingState') IN
                 req' = [req EXCEPT ![c] =
                           IF r.i < Len(r.chunks)
                           THEN [r1 EXCEPT !.pc = "tileLoad", !.i = r.i + 1]
                           ELSE EnterReassemble(r1)]
    /\ UNCHANGED <<plan, session, modelName, modelInfo, ld>>

\* app.ts:572-592 and 394-410: the compositor settles, staging is removed
\* and the request settles
Compose(c) ==
    /\ NoneSettled
    /\ req[c].pc = "compose"
    /\ \E ok \in BOOLEAN :
         LeaveChunked(c, req[c], staging, IF ok THEN "image" ELSE "compositing")
    /\ UNCHANGED <<plan, session, modelName, modelInfo, processingState, ld>>

\* the caller of processImage takes the settled promise (app.ts:746-786);
\* the locals of the call are gone.  The session id of the request is never
\* used again, and staging holds the entries of the requests not yet closed.
Respond(c) ==
    /\ Settled(c)
    /\ req' = [req EXCEPT ![c] =
                 [IdleReq EXCEPT !.pc = "closed", !.accepted = req[c].accepted]]
    /\ staging' = [dirs |-> {d \in staging.dirs : d[2] # c},
                   files |-> {f \in staging.files : f[2] # c}]
    /\ UNCHANGED <<plan, session, modelName, modelInfo, processing,
                   processingState, ld>>

Init == ProcInit /\ plan = NoPlan

Next ==
    \/ \E l \in Loads :
         LoadStart(l) \/ LoadCreated(l) \/ LoadAnalyzed(l) \/ LoadReturn(l)
    \/ DeleteModel
    \/ \E c \in Calls :
         \/ Enter(c) \/ Decoded(c) \/ PlanTiles(c) \/ Extract(c)
         \/ TileLoad(c) \/ Prep(c) \/ Run(c) \/ Encode(c) \/ Save(c)
         \/ Compose(c) \/ Respond(c)

Spec == Init /\ [][Next]_vars

(***************************************************************************)
(* createChunks on its own, over small generic policies (T > O >= 0).      *)
(***************************************************************************)
SmallPolicies ==
    {p \in (1..MaxTile) \X (0..MaxTile) : p[1] > p[2]}

InitChunks ==
    /\ ProcInit
    /\ \E w \in 1..MaxSide, h \in 1..MaxSide, p \in SmallPolicies :
        plan = [tag |-> "input", width |-> w, height |-> h,
                chunkSize |-> p[1], overlap |-> p[2]]

PlanChunks ==
    /\ plan.tag = "input"
    /\ plan' = [tag |-> "planned", width |-> plan.width, height |-> plan.height,
                chunkSize |-> plan.chunkSize, overlap |-> plan.overlap,
                chunks |-> CreateChunks(plan.width, plan.height,
                                        plan.chunkSize, plan.overlap)]
    /\ UNCHANGED procVars

NextChunks == PlanChunks

SpecChunks == InitChunks /\ [][NextChunks]_vars

\* the pixels of a chunk's extraction rectangle
ChunkPixels(c) ==
    {px \in (c.x..(c.x + c.width - 1)) \X (c.y..(c.y + c.height - 1)) : TRUE}

SeqRange(s) == {s[i] : i \in 1..Len(s)}

\* C3: the extraction rectangles of the planned tiles cover [0,W) x [0,H)
\* exactly (no gap, nothing outside) and each has positive width and height.
C3_ExactCover ==
    plan.tag = "planned" =>
        /\ UNION {ChunkPixels(c) : c \in SeqRange(plan.chunks)}
             = (0..(plan.width - 1)) \X (0..(plan.height - 1))
        /\ \A c \in SeqRange(plan.chunks) :
             /\ c.width > 0 /\ c.height > 0
             /\ c.x >= 0 /\ c.y >= 0
             /\ c.x + c.width <= plan.width
             /\ c.y + c.height <= plan.height

\* a plan with several columns and rows whose last column and row are clipped
C3_Witness ==
    /\ plan.tag = "planned"
    /\ Len(plan.chunks) >= 4
    /\ plan.overlap >= 2
    /\ \E c \in SeqRange(plan.chunks) :
         c.row > 0 /\ c.col > 0 /\ c.width < plan.chunkSize

(***************************************************************************)
(* Grid adjacency of planned tiles and the overlap of their rectangles.    *)
(***************************************************************************)
\* b is the right-hand neighbour of a in the grid
RightOf(a, b) == a.row = b.row /\ b.col = a.col + 1
\* b is the neighbour below a in the grid
Below(a, b) == a.col = b.col /\ b.row = a.row + 1

OverlapX(a, b) == Min(a.x + a.width, b.x + b.width) - Max(a.x, b.x)
OverlapY(a, b) == Min(a.y + a.height, b.y + b.height) - Max(a.y, b.y)

FewSides == {1, 500, SCUNET_CHUNK_SIZE, SCUNET_CHUNK_SIZE + 1,
             DEFAULT_CHUNK_SIZE, DEFAULT_CHUNK_SIZE + 1, 2000}

BuiltinSizes ==
    ((1..MaxImageDim) \X FewSides) \cup (FewSides \X (1..MaxImageDim))

InitBuiltin ==
    /\ ProcInit
    /\ \E name \in ModelNames, sz \in BuiltinSizes :
        plan = [tag |-> "image", modelName |-> name,
                width |-> sz[1], height |-> sz[2]]

PlanBuiltin ==
    /\ plan.tag = "image"
    /\ NeedsChunking(plan.width, plan.height, getChunkSizeForModel(plan.modelName))
    /\ plan' = [tag |-> "planned", width |-> plan.width, height |-> plan.height,
                chunkSize |-> getChunkSizeForModel(plan.modelName),
                overlap |-> getOverlapForModel(plan.modelName),
                chunks |-> CreateChunks(plan.width, plan.height,
                                        getChunkSizeForModel(plan.modelName),
                                        getOverlapForModel(plan.modelName))]
    /\ UNCHANGED procVars

NextBuiltin == PlanBuiltin

SpecBuiltin == InitBuiltin /\ [][NextBuiltin]_vars

\* C5 as stated: under a built-in policy every pair of grid-adjacent tiles
\* overlaps by at least the configured overlap O (32 or 128), also when the
\* last column or row is narrower than a full tile.
C5_OverlapAtLeastO ==
    plan.tag = "planned" =>
        \A a, b \in SeqRange(plan.chunks) :
            /\ RightOf(a, b) => OverlapX(a, b) >= plan.overlap
            /\ Below(a, b) => OverlapY(a, b) >= plan.overlap

\* C5 amended: grid-adjacent tiles overlap by at least O when the image
\* reaches at least O - floor(O/2) pixels past the grid origin of the second
\* tile; when the last column or row is narrower than that, the overlap is
\* its extent plus floor(O/2), which is at least floor(O/2) + 1.
C5_OverlapUnlessSliver ==
    plan.tag = "planned" =>
        \A a, b \in SeqRange(plan.chunks) :
            /\ RightOf(a, b) =>
                 IF plan.width - b.originalStartX >= plan.overlap - plan.overlap \div 2
                 THEN OverlapX(a, b) >= plan.overlap
                 ELSE /\ OverlapX(a, b)
                           = plan.width - b.originalStartX + plan.overlap \div 2
                      /\ OverlapX(a, b) >= plan.overlap \div 2 + 1
            /\ Below(a, b) =>
                 IF plan.height - b.originalStartY >= plan.overlap - plan.overlap \div 2
                 THEN OverlapY(a, b) >= plan.overlap
                 ELSE /\ OverlapY(a, b)
                           = plan.height - b.originalStartY + plan.overlap \div 2
                      /\ OverlapY(a, b) >= plan.overlap \div 2 + 1

\* a plan under each built-in policy with a narrow last column, and one with
\* a full-width second column
C5_Witness ==
    /\ plan.tag = "planned"
    /\ plan.overlap = SCUNET_OVERLAP
    /\ \E a, b \in SeqRange(plan.chunks) :
         /\ RightOf(a, b)
         /\ plan.width - b.originalStartX < plan.overlap - plan.overlap \div 2
    /\ \E a, b \in SeqRange(plan.chunks) :
         /\ RightOf(a, b)
         /\ b.width > plan.chunkSize
    /\ \E a, b \in SeqRange(plan.chunks) : Below(a, b)

(***************************************************************************)
(* Properties of the processor, checked under Spec.                        *)
(***************************************************************************)
\* the call has been accepted and has not settled
InFlight(c) ==
    req[c].pc \in {"decode", "plan", "extract", "tileLoad", "prep", "run",
                   "encode", "save", "compose"}
\* the call was rejected at the entry of processImage
Rejected(c) == req[c].pc = "thrown" /\ ~req[c].accepted

\* the tiles 1..n in order
UpTo(n) == [j \in 1..n |-> j]

\* C1: at most one processImage call is accepted and unsettled at a time; a
\* call made while another one is in flight is rejected at entry with an
\* error, is not queued and runs no inference.
C1_OneActiveRequest ==
    /\ \A c, d \in Calls : InFlight(c) /\ InFlight(d) => c = d
    /\ \A c \in Calls :
         Rejected(c) =>
            /\ req[c].error \in {"busy init", "No model loaded init"}
            /\ req[c].runs = <<>> /\ req[c].log = <<>>
            /\ ~req[c].planned /\ ~req[c].composed
            /\ req[c].result = "none"
    /\ \A c \in Calls : req[c].runs # <<>> => req[c].accepted

\* a call rejected as busy while the other one waits for the executor
C1_Witness ==
    \E c, d \in Calls :
        /\ req[d].pc = "run" /\ req[d].chunked /\ req[d].i = 2
        /\ Rejected(c) /\ req[c].error = "busy init"

\* C2: the busy flag is true exactly while an accepted call has not settled;
\* it is false once the call has returned or thrown, whatever the exit path.
C2_BusyWhileInFlight ==
    processing = (\E c \in Calls : InFlight(c))

\* a call accepted after an earlier accepted call has thrown and was closed
C2_Witness ==
    \E c, d \in Calls :
        /\ req[c].pc = "closed" /\ req[c].accepted
        /\ InFlight(d) /\ req[d].pc = "run"
        /\ processingState.completedChunks = 1

\* C6: in a chunked request with a progress callback that planned N tiles,
\* the callbacks so far are (N,0), (N,1), ... in this order, and a request
\* that returned made exactly N+1 of them; a 2000x2000 image planned under
\* the default policy has N = 4 in a 2x2 grid.
C6_ProgressSequence ==
    \A c \in Calls :
        LET r == req[c]
            n == Len(r.chunks)
        IN  r.chunked /\ r.progress =>
              /\ \A k \in 1..Len(r.log) : r.log[k] = <<n, k - 1>>
              /\ Len(r.log) <= n + 1
              /\ r.pc = "returned" => Len(r.log) = n + 1
              /\ (r.planned /\ r.image = <<2000, 2000>>
                    /\ r.planSize = DEFAULT_CHUNK_SIZE)
                   => /\ n = 4
                      /\ {<<r.chunks[j].row, r.chunks[j].col>> : j \in 1..n}
                           = (0..1) \X (0..1)

\* the 2000x2000 request under the default policy has returned
C6_Witness ==
    \E c \in Calls :
        /\ req[c].pc = "returned" /\ req[c].chunked /\ req[c].progress
        /\ req[c].image = <<2000, 2000>>
        /\ req[c].planSize = DEFAULT_CHUNK_SIZE
        /\ req[c].log = <<<<4, 0>>, <<4, 1>>, <<4, 2>>, <<4, 3>>, <<4, 4>>>>

\* C7: a request is chunked iff its width or height exceeds the tile size of
\* the model loaded when it decides; a request that is not chunked never
\* calls the planner or the compositor and stages nothing, and when it
\* returns it has run the executor once, on the whole image, the state is
\* total 1, completed 1 and the callbacks were (1,0) then (1,1).
C7_ChunkIffLarger ==
    \A c \in Calls :
        LET r == req[c] IN
        r.decideSize # 0 =>
          /\ r.decideSize \in {DEFAULT_CHUNK_SIZE, SCUNET_CHUNK_SIZE}
          /\ r.chunked = (r.image[1] > r.decideSize \/ r.image[2] > r.decideSize)
          /\ ~r.chunked =>
               /\ ~r.planned /\ ~r.composed /\ r.chunks = <<>>
               /\ StagingOf(staging, c) = [dirs |-> {}, files |-> {}]
               /\ Len(r.runs) <= 1
               /\ r.pc = "returned" =>
                    /\ r.runs = <<0>>
                    /\ processingState.totalChunks = 1
                    /\ processingState.completedChunks = 1
                    /\ r.progress => r.log = <<<<1, 0>>, <<1, 1>>>>

\* an image as large as the default tile in one dimension has returned
\* unchunked
C7_Witness ==
    \E c \in Calls :
        /\ req[c].pc = "returned" /\ ~req[c].chunked
        /\ req[c].image = <<1200, 640>>
        /\ req[c].decideSize = DEFAULT_CHUNK_SIZE
        /\ req[c].log = <<<<1, 0>>, <<1, 1>>>>

\* C8: when the executor fails on tile k of a chunked request, the call
\* throws the inference error, the tiles handed to the executor were
\* 1, ..., k once each, the compositor was not called, nothing is returned
\* and completed is k-1.
C8_InferenceFailureAborts ==
    \A c \in Calls :
        LET r == req[c] IN
        /\ (r.chunked /\ r.primary = "inference") =>
             /\ r.pc = "thrown"
             /\ r.error = "inference"
             /\ r.i \in 1..Len(r.chunks)
             /\ r.runs = UpTo(r.i)
             /\ ~r.composed
             /\ r.result = "none"
             /\ processingState.completedChunks = r.i - 1
             /\ processingState.totalChunks = Len(r.chunks)
        /\ (r.chunked /\ r.accepted) =>
             /\ r.runs \in {UpTo(r.i), UpTo(r.i - 1)}
             /\ r.composed => r.runs = UpTo(Len(r.chunks))

\* the executor failed on the third of four tiles
C8_Witness ==
    \E c \in Calls :
        /\ req[c].pc = "thrown" /\ req[c].chunked
        /\ req[c].primary = "inference"
        /\ req[c].i = 3 /\ Len(req[c].chunks) = 4
        /\ processingState.completedChunks = 2

\* C9: when a chunked request has settled, by returning or by throwing at
\* any stage, both staging directories and all their files are gone.
C9_NoStagingLeft ==
    \A c \in Calls :
        (Settled(c) /\ req[c].chunked) =>
            StagingOf(staging, c) = [dirs |-> {}, files |-> {}]

\* the removal of the chunk directory threw: the processed directory and the
\* tiles saved in it are left, their removal was not attempted
C9_Witness ==
    \E c \in Calls :
        /\ Settled(c) /\ req[c].chunked /\ req[c].cleanupThrew
        /\ ChunkDir(c) \in staging.dirs
        /\ ProcessedDir(c) \in staging.dirs
        /\ FilesIn(staging, ProcessedDir(c)) # {}

\* C10: the error of a failed staging removal is never what the request
\* settles with: a request whose compositing succeeded returns the image and
\* a request that failed throws the error its try block ended with.
C10_CleanupErrorSwallowed ==
    \A c \in Calls :
        LET r == req[c] IN
        (Settled(c) /\ r.chunked) =>
            /\ r.primary # "none"
            /\ r.primary = "image" => r.pc = "returned" /\ r.result = "image"
            /\ r.primary # "image" =>
                 r.pc = "thrown" /\ r.error = r.primary /\ r.result = "none"
            /\ r.error # "cleanup"

\* a removal threw after compositing had succeeded
C10_Witness ==
    \E c \in Calls :
        /\ req[c].pc = "returned" /\ req[c].cleanupThrew
        /\ req[c].primary = "image" /\ req[c].result = "image"

(***************************************************************************)
(* Properties of loadModel, checked under Spec.                            *)
(***************************************************************************)
\* the processor holds no model
NoModel == session = NoSession /\ modelName = NullName /\ modelInfo = NoInfo

C12_FailsWithModelLoadError ==
    \A l \in Loads :
        (ld[l].pc = "failed" /\ ld[l].cause \in {"missing", "engine"})
            => ld[l].error = "ModelLoadError"

\* the engine has rejected a file that exists and loadModel has thrown the
\* engine's error
C12_Witness ==
    \E l \in Loads :
        /\ ld[l].pc = "failed" /\ ld[l].cause = "engine"
        /\ ld[l].error = "EngineError"

(***************************************************************************)
(* analyzeModelInputs (app.ts:206-300) on its own: the declared inputs of  *)
(* a session and the outcome of the trial inferences are the input, the    *)
(* ModelInfo is the output.  Names are sequences of characters.            *)
(***************************************************************************)
\* the longest list of declared inputs
MaxInputs == 3

InInput == <<"i", "n", "p", "u", "t">>
InX == <<"x">>
InAux == <<"a", "u", "x">>
InNoise == <<"n", "o", "i", "s", "e">>
InQf == <<"q", "f">>
InUpperQF == <<"Q", "F">>
InQuality == <<"q", "u", "a", "l", "i", "t", "y">>
InStrength == <<"s", "t", "r", "e", "n", "g", "t", "h">>
InputNamePool == {InInput, InX, InAux, InNoise, InQf, InUpperQF, InQuality,
                  InStrength}
\* qualityInputName left undefined
Undefined == <<"undefined">>

\* String.prototype.toLowerCase on the characters of the pool
ToLowerCase(name) ==
    [k \in 1..Len(name) |->
        CASE name[k] = "Q" -> "q"
          [] name[k] = "F" -> "f"
          [] OTHER -> name[k]]

\* String.prototype.includes
Includes(name, part) ==
    \E k \in 0..(Len(name) - Len(part)) :
        SubSeq(name, k + 1, k + Len(part)) = part

\* the filter of app.ts:219-225
IsImageCandidate(name, inputNames) ==
    \/ Includes(ToLowerCase(name), InInput)
    \/ Includes(ToLowerCase(name), <<"i", "m", "a", "g", "e">>)
    \/ Includes(ToLowerCase(name), InX)
    \/ name = InInput
    \/ Len(inputNames) = 1

\* imageInputCandidates (app.ts:219-229)
ImageInputCandidates(inputNames) ==
    LET filtered == SelectSeq(inputNames,
                              LAMBDA n : IsImageCandidate(n, inputNames))
    IN  IF filtered = <<>> THEN <<inputNames[1]>> ELSE filtered

\* the name test without lower-casing the name
IsQualityNameAsWritten(name) ==
    \/ Includes(name, InQf)
    \/ Includes(name, InQuality)
    \/ Includes(name, InStrength)

\* the test of app.ts:274-276
IsQualityName(name) ==
    \/ Includes(ToLowerCase(name), InQf)
    \/ Includes(ToLowerCase(name), InQuality)
    \/ Includes(ToLowerCase(name), InStrength)

\* Array.prototype.find over indices: the first of the indices hits, 0 if
\* there is none
FirstIndex(hits) ==
    IF hits = {} THEN 0 ELSE CHOOSE k \in hits : \A j \in hits : k <= j

\* app.ts:231-270: the first candidate one of whose trials succeeds, with the
\* shape of the trial that did; trial[k] is what the trials of the k-th
\* candidate do ("gray": the grayscale trial succeeds; "color": it fails and
\* the color trial succeeds; "none": both fail)
DetectImageInput(inputNames, trial) ==
    LET cands == ImageInputCandidates(inputNames)
        hit == IF \E k \in 1..Len(cands) : trial[k] # "none"
               THEN CHOOSE k \in 1..Len(cands) :
                       trial[k] # "none" /\ \A j \in 1..(k - 1) : trial[j] = "none"
               ELSE 0
    IN  IF hit = 0
        THEN [imageInputName |-> inputNames[1],
              imageInputShape |-> <<1, 3, -1, -1>>, isGrayscale |-> FALSE]
        ELSE IF trial[hit] = "gray"
        THEN [imageInputName |-> cands[hit],
              imageInputShape |-> <<1, 1, 64, 64>>, isGrayscale |-> TRUE]
        ELSE [imageInputName |-> cands[hit],
              imageInputShape |-> <<1, 3, 64, 64>>, isGrayscale |-> FALSE]

\* app.ts:272-291: the quality input and the log line that tells how it was
\* found
DetectQualityInput(inputNames, imageInputName) ==
    LET named == FirstIndex({k \in 1..Len(inputNames) :
                                /\ inputNames[k] # imageInputName
                                /\ IsQualityName(inputNames[k])})
        other == FirstIndex({k \in 1..Len(inputNames) :
                                inputNames[k] # imageInputName})
    IN  IF named # 0
        THEN [hasQualityInput |-> TRUE, qualityInputName |-> inputNames[named],
              logged |-> "Detected quality input"]
        ELSE IF Len(inputNames) = 2 /\ other # 0
        THEN [hasQualityInput |-> TRUE, qualityInputName |-> inputNames[other],
              logged |-> "Assuming second input is quality"]
        ELSE [hasQualityInput |-> FALSE, qualityInputName |-> Undefined,
              logged |-> "nothing"]

\* the ModelInfo returned at app.ts:293-299
AnalyzeModelInputs(inputNames, trial) ==
    LET img == DetectImageInput(inputNames, trial)
        q == DetectQualityInput(inputNames, img.imageInputName)
    IN  [imageInputName |-> img.imageInputName,
         imageInputShape |-> img.imageInputShape,
         isGrayscale |-> img.isGrayscale,
         hasQualityInput |-> q.hasQualityInput,
         qualityInputName |-> q.qualityInputName,
         logged |-> q.logged]

\* lists of distinct declared inputs
InputNameLists ==
    {names \in UNION {[1..n -> InputNamePool] : n \in 1..MaxInputs} :
        \A j, k \in 1..Len(names) : j # k => names[j] # names[k]}

TrialOutcomes == [1..MaxInputs -> {"gray", "color", "none"}]

InitIntrospect ==
    /\ ProcInit
    /\ \E names \in InputNameLists, trial \in TrialOutcomes :
         plan = [tag |-> "session", inputNames |-> names, trial |-> trial]

Introspect ==
    /\ plan.tag = "session"
    /\ plan' = [tag |-> "analyzed", inputNames |-> plan.inputNames,
                trial |-> plan.trial,
                info |-> AnalyzeModelInputs(plan.inputNames, plan.trial)]
    /\ UNCHANGED procVars

NextIntrospect == Introspect

SpecIntrospect == InitIntrospect /\ [][NextIntrospect]_vars

\* the declared inputs other than the chosen image input whose lower-cased
\* name contains one of the three words, by position
QualityNamed(names, image) ==
    {k \in 1..Len(names) :
        /\ names[k] # image
        /\ \E word \in {InQf, InQuality, InStrength} :
              Includes(ToLowerCase(names[k]), word)}

SetMin(S) == CHOOSE k \in S : \A j \in S : k <= j

\* C14: the quality input is the first input other than the image input
\* whose lower-cased name contains "qf", "quality" or "strength"; if there is
\* none and the model has exactly two inputs it is the other input; otherwise
\* there is none.  A two-input model whose second input is "qf" gets it by
\* name, and hasQualityInput holds iff qualityInputName is set and differs
\* from imageInputName.
C14_QualityInputDetection ==
    plan.tag = "analyzed" =>
        LET names == plan.inputNames
            info == plan.info
            named == QualityNamed(names, info.imageInputName)
        IN  /\ named # {} =>
                 /\ info.hasQualityInput
                 /\ info.qualityInputName = names[SetMin(named)]
                 /\ info.logged = "Detected quality input"
            /\ (named = {} /\ Len(names) = 2) =>
                 /\ info.hasQualityInput
                 /\ info.qualityInputName \in SeqRange(names)
                 /\ info.qualityInputName # info.imageInputName
                 /\ info.logged = "Assuming second input is quality"
            /\ (named = {} /\ Len(names) # 2) =>
                 /\ ~info.hasQualityInput
                 /\ info.qualityInputName = Undefined
            /\ (Len(names) = 2 /\ names[2] = InQf) =>
                 /\ info.imageInputName = names[1]
                 /\ info.qualityInputName = InQf
                 /\ info.logged = "Detected quality input"
            /\ Len(names) = 1 =>
                 /\ info.imageInputName = names[1]
                 /\ ~info.hasQualityInput
            /\ info.hasQualityInput
                 <=> (/\ info.qualityInputName # Undefined
                      /\ info.qualityInputName # info.imageInputName)

\* three inputs, the quality input named in upper case after an input that is
\* neither image nor quality
C14_Witness ==
    /\ plan.tag = "analyzed"
    /\ plan.inputNames = <<InInput, InNoise, InUpperQF>>
    /\ plan.info.imageInputName = InInput
    /\ plan.info.qualityInputName = InUpperQF

\* C13: analyzeModelInputs never raises, also when other operations of the
\* processor run at its await points: no loadModel call fails in its
\* introspection.
C13_IntrospectionNeverRaises ==
    \A l \in Loads : ld[l].cause # "introspection"

\* the processor was unloaded while the trial inferences of a load were
\* awaited, and reading this.session.inputNames has thrown
C13_Witness ==
    \E l \in Loads :
        /\ ld[l].pc = "failed" /\ ld[l].cause = "introspection"
        /\ ld[l].error = "TypeError"

(***************************************************************************)
(* createFeatheredChunk (app.ts:595-642) and reassembleChunksWithFeathering*)
(* (app.ts:554-593) on their own, after createChunks: a tile policy and an *)
(* image size are the input; the planned tiles, the alpha channel of every *)
(* feathered tile and the composited canvas are the output.  A processed   *)
(* tile has the size of the tile that was extracted.  The overlaps halve   *)
(* to a power of two, so that x / featherSize * 255 is exact in floating   *)
(* point and Math.floor of it is the integer quotient.                     *)
(***************************************************************************)
\* the longest side of a composited image
MaxCanvas == 22

\* <<tile size, overlap>>
FeatherPolicies == {<<5, 2>>, <<10, 4>>, <<12, 5>>, <<20, 8>>}

\* a ramp as wide as the whole overlap
FeatherWholeOverlap(overlap) == overlap

\* const featherSize = Math.floor(overlap / 2)  (app.ts:565)
FeatherSize(overlap) == overlap \div 2

\* the left ramp applied whether or not the edge is inside the image
LeftRampAlways(chunkInfo, x, featherSize) ==
    IF x < featherSize THEN x ELSE featherSize

\* the four ramps of app.ts:615-629 at the pixel (x, y) of a tile, each as
\* the numerator of a weight over featherSize; featherSize itself where the
\* ramp does not apply
LeftRamp(chunkInfo, x, featherSize) ==
    IF chunkInfo.x > 0 /\ x < featherSize THEN x ELSE featherSize

TopRamp(chunkInfo, y, featherSize) ==
    IF chunkInfo.y > 0 /\ y < featherSize THEN y ELSE featherSize

\* the right ramp applied to a tile that ends on the image boundary as well
RightRampAlways(chunkInfo, width, x, totalWidth, featherSize) ==
    IF x >= width - featherSize THEN width - x ELSE featherSize

RightRamp(chunkInfo, width, x, totalWidth, featherSize) ==
    IF chunkInfo.x + width < totalWidth /\ x >= width - featherSize
    THEN width - x ELSE featherSize

BottomRamp(chunkInfo, height, y, totalHeight, featherSize) ==
    IF chunkInfo.y + height < totalHeight /\ y >= height - featherSize
    THEN height - y ELSE featherSize

\* modifiedData[idx + 3] = Math.floor(alpha * 255)  (app.ts:613-631)
FeatherAlpha(chunkInfo, width, height, x, y, totalWidth, totalHeight, featherSize) ==
    LET num == Min(Min(featherSize, LeftRamp(chunkInfo, x, featherSize)),
                   Min(Min(TopRamp(chunkInfo, y, featherSize),
                           RightRamp(chunkInfo, width, x, totalWidth,
                                     featherSize)),
                       BottomRamp(chunkInfo, height, y, totalHeight,
                                  featherSize)))
    IN  IF featherSize = 0 THEN 255 ELSE (num * 255) \div featherSize

\* the alpha channel createFeatheredChunk gives a processed tile, by local
\* pixel
CreateFeatheredChunk(chunkInfo, totalWidth, totalHeight, featherSize) ==
    [px \in (0..(chunkInfo.width - 1)) \X (0..(chunkInfo.height - 1)) |->
        FeatherAlpha(chunkInfo, chunkInfo.width, chunkInfo.height,
                     px[1], px[2], totalWidth, totalHeight, featherSize)]

\* the value of every pixel of a processed tile: the same for all tiles, or
\* one that differs between neighbouring tiles
TileValue(chunk, pattern) ==
    IF pattern = "flat" THEN 40
    ELSE 20 + 10 * ((chunk.row + 2 * chunk.col) % 4)

\* the tiles taken last to first
ReversePaintOrder(chunks) == [k \in 1..Len(chunks) |-> Len(chunks) + 1 - k]

\* for (const chunk of chunks): the tiles are painted in the order in which
\* createChunks emitted them (app.ts:569-590)
PaintOrder(chunks) == [k \in 1..Len(chunks) |-> k]

\* the tile covers the pixel g of the canvas when placed at its extraction
\* origin (left: chunk.x, top: chunk.y, app.ts:582-587)
Covers(chunk, g) ==
    /\ chunk.x <= g[1] /\ g[1] < chunk.x + chunk.width
    /\ chunk.y <= g[2] /\ g[2] < chunk.y + chunk.height

\* what the tiles of order paint at g, bottom to top
LayersAt(g, order, chunks, values, alphas) ==
    LET on == SelectSeq(order, LAMBDA t : Covers(chunks[t], g))
    IN  [k \in 1..Len(on) |->
            [alpha |-> alphas[on[k]][<<g[1] - chunks[on[k]].x,
                                       g[2] - chunks[on[k]].y>>],
             value |-> values[on[k]]]]

Pow255(n) == IF n = 0 THEN 1 ELSE IF n = 1 THEN 255
             ELSE IF n = 2 THEN 65025 ELSE 16581375

\* blend 'over' an opaque canvas: src * a + dst * (1 - a), kept exact as a
\* numerator over 255^Len(layers); base is what lies under the layers
RECURSIVE Over(_, _)
Over(layers, base) ==
    IF layers = <<>> THEN base
    ELSE LET n == Len(layers)
             top == layers[n]
         IN  top.value * top.alpha * Pow255(n - 1)
               + Over(SubSeq(layers, 1, n - 1), base) * (255 - top.alpha)

\* the pixel of the PNG written at app.ts:590-592 from the layers painted on
\* the black canvas of app.ts:555-562.  A layer of alpha 0 leaves the canvas
\* as it is and a layer of alpha 255 replaces it, so only the layers above
\* the last opaque one are blended; the result is rounded to 8 bits.
CompositePixel(layers) ==
    LET opaque == {k \in 1..Len(layers) : layers[k].alpha = 255}
        from == IF opaque = {} THEN 0
                ELSE CHOOSE k \in opaque : \A j \in opaque : j <= k
        base == IF from = 0 THEN 0 ELSE layers[from].value
        above == SelectSeq(SubSeq(layers, from + 1, Len(layers)),
                           LAMBDA l : l.alpha # 0)
        den == Pow255(Len(above))
    IN  (2 * Over(above, base) + den) \div (2 * den)

\* reassembleChunksWithFeathering: the canvas, by pixel
ReassembleChunksWithFeathering(chunks, values, alphas, totalWidth, totalHeight) ==
    [g \in (0..(totalWidth - 1)) \X (0..(totalHeight - 1)) |->
        CompositePixel(LayersAt(g, PaintOrder(chunks), chunks, values, alphas))]

\* one side of the image takes every length up to MaxCanvas, the other a few
FewCanvasSides == {1, 6, 13, MaxCanvas}
CanvasSizes ==
    ((1..MaxCanvas) \X FewCanvasSides) \cup (FewCanvasSides \X (1..MaxCanvas))

InitFeather ==
    /\ ProcInit
    /\ \E policy \in FeatherPolicies, sz \in CanvasSizes,
          pattern \in {"flat", "varied"} :
         plan = [tag |-> "processed", width |-> sz[1], height |-> sz[2],
                 chunkSize |-> policy[1], overlap |-> policy[2],
                 pattern |-> pattern]

Reassemble ==
    /\ plan.tag = "processed"
    /\ LET chunks == CreateChunks(plan.width, plan.height, plan.chunkSize,
                                  plan.overlap)
           values == [t \in 1..Len(chunks) |-> TileValue(chunks[t], plan.pattern)]
           alphas == [t \in 1..Len(chunks) |->
                        CreateFeatheredChunk(chunks[t], plan.width, plan.height,
                                             FeatherSize(plan.overlap))]
       IN  plan' = [tag |-> "composited", width |-> plan.width,
                    height |-> plan.height, chunkSize |-> plan.chunkSize,
                    overlap |-> plan.overlap, chunks |-> chunks,
                    values |-> values, alphas |-> alphas,
                    canvas |-> ReassembleChunksWithFeathering(
                                  chunks, values, alphas, plan.width,
                                  plan.height)]
    /\ UNCHANGED procVars

NextFeather == Reassemble

SpecFeather == InitFeather /\ [][NextFeather]_vars

\* the local pixels of a tile
TilePixels(chunk) == (0..(chunk.width - 1)) \X (0..(chunk.height - 1))
\* the tile is the whole image
SpansImage(chunk) ==
    /\ chunk.x = 0 /\ chunk.y = 0
    /\ chunk.width = plan.width /\ chunk.height = plan.height

\* C15: an edge of a tile that lies on the boundary of the image is not
\* feathered: a pixel has alpha below 255 only within featherSize of an edge
\* of its tile that is inside the image.  A tile that is the whole image has
\* alpha 255 everywhere, and compositing it alone gives its pixels unchanged.
C15_BoundaryEdgesNotFeathered ==
    plan.tag = "composited" =>
        LET F == plan.overlap \div 2 IN
        \A t \in 1..Len(plan.chunks) :
            LET ch == plan.chunks[t] IN
            /\ \A px \in TilePixels(ch) :
                 plan.alphas[t][px] < 255 =>
                    \/ ch.x > 0 /\ px[1] < F
                    \/ ch.y > 0 /\ px[2] < F
                    \/ ch.x + ch.width < plan.width /\ px[1] >= ch.width - F
                    \/ ch.y + ch.height < plan.height /\ px[2] >= ch.height - F
            /\ SpansImage(ch) =>
                 /\ \A px \in TilePixels(ch) : plan.alphas[t][px] = 255
                 /\ Len(plan.chunks) = 1 =>
                      \A g \in DOMAIN plan.canvas : plan.canvas[g] = plan.values[t]

\* one tile that is the whole image, composited alone
C15_Witness ==
    /\ plan.tag = "composited"
    /\ Len(plan.chunks) = 1
    /\ SpansImage(plan.chunks[1])
    /\ plan.overlap = 8
    /\ plan.width > 1 /\ plan.height > 1

\* the weight the pixel gets if each ramp of an inside edge is d / F, d the
\* distance to the outermost pixel on that side, and the four ramps combine
\* by min; as an alpha byte
MirroredAlpha(ch, px, F) ==
    LET ramp(inside, d) == IF inside /\ d < F THEN d ELSE F
        num == Min(Min(ramp(ch.x > 0, px[1]),
                       ramp(ch.y > 0, px[2])),
                   Min(ramp(ch.x + ch.width < plan.width,
                            ch.width - 1 - px[1]),
                       ramp(ch.y + ch.height < plan.height,
                            ch.height - 1 - px[2])))
    IN  IF F = 0 THEN 255 ELSE (num * 255) \div F

\* C18: the four ramps are symmetric: with F = floor(overlap / 2), a pixel at
\* distance d < F from an inside right or bottom edge gets the weight d / F
\* that a pixel at distance d from an inside left or top edge gets, the
\* outermost pixel on every inside edge gets 0, and the four combine by min.
C18_RampsSymmetric ==
    plan.tag = "composited" =>
        \A t \in 1..Len(plan.chunks) :
            \A px \in TilePixels(plan.chunks[t]) :
                plan.alphas[t][px]
                    = MirroredAlpha(plan.chunks[t], px, plan.overlap \div 2)

\* a tile with a right edge inside the image whose outermost right pixel,
\* away from the other ramps, has alpha floor(255 / 4), not 0
C18_Witness ==
    /\ plan.tag = "composited"
    /\ plan.overlap = 8
    /\ \E t \in 1..Len(plan.chunks) :
         LET ch == plan.chunks[t] IN
         /\ ch.x + ch.width < plan.width
         /\ ch.height > 8
         /\ plan.alphas[t][<<ch.width - 1, 4>>] = 63
         /\ plan.alphas[t][<<ch.width - 4, 4>>] = 255

\* the pixels, global, that two tiles share
SharedPixels(a, b) ==
    {g \in (Max(a.x, b.x)..(Min(a.x + a.width, b.x + b.width) - 1))
           \X (Max(a.y, b.y)..(Min(a.y + a.height, b.y + b.height) - 1)) : TRUE}

\* the alpha of tile t at the global pixel g
AlphaAt(t, g) ==
    plan.alphas[t][<<g[1] - plan.chunks[t].x, g[2] - plan.chunks[t].y>>]

\* C17 as stated: at every pixel that two grid-adjacent tiles share, the
\* feather weights of the two tiles add up to 1 (alpha 255).
C17_RampsComplementary ==
    plan.tag = "composited" =>
        \A s, t \in 1..Len(plan.chunks) :
            (RightOf(plan.chunks[s], plan.chunks[t])
               \/ Below(plan.chunks[s], plan.chunks[t])) =>
                \A g \in SharedPixels(plan.chunks[s], plan.chunks[t]) :
                    AlphaAt(s, g) + AlphaAt(t, g) = 255

\* g lies in none of the first and last F rows (columns) of the tile, where
\* the ramps across the other axis are
OffCrossRamps(ch, g, F, alongX) ==
    IF alongX
    THEN g[2] - ch.y >= F /\ g[2] - ch.y < ch.height - F
    ELSE g[1] - ch.x >= F /\ g[1] - ch.x < ch.width - F

\* C17 amended: the ramps of two grid-adjacent tiles lie in different parts
\* of the band the tiles share: at every shared pixel outside the ramps
\* across the other axis at least one of the two tiles has weight 1, so
\* the weights add up to at least 1, and to exactly 1 only on the first
\* column (row) of the second tile, where its weight is 0.
C17_RampsDisjoint ==
    plan.tag = "composited" =>
        LET F == plan.overlap \div 2 IN
        \A s, t \in 1..Len(plan.chunks) :
            LET a == plan.chunks[s]
                b == plan.chunks[t]
            IN  (RightOf(a, b) \/ Below(a, b)) =>
                  \A g \in SharedPixels(a, b) :
                     (OffCrossRamps(a, g, F, RightOf(a, b))
                        /\ OffCrossRamps(b, g, F, RightOf(a, b))) =>
                        /\ AlphaAt(s, g) = 255 \/ AlphaAt(t, g) = 255
                        /\ AlphaAt(s, g) > 0
                        /\ AlphaAt(s, g) + AlphaAt(t, g) = 255
                             <=> IF RightOf(a, b) THEN g[1] = b.x
                                 ELSE g[2] = b.y

\* two tiles side by side under overlap 8, both ramps inside the shared
\* band: a pixel where both weights are 1 and a pixel on the ramp of each
C17_Witness ==
    /\ plan.tag = "composited"
    /\ plan.overlap = 8
    /\ \E s, t \in 1..Len(plan.chunks) :
         LET a == plan.chunks[s]
             b == plan.chunks[t]
         IN  /\ RightOf(a, b)
             /\ a.height > 8
             /\ \E g \in SharedPixels(a, b) :
                  /\ OffCrossRamps(a, g, 4, TRUE)
                  /\ AlphaAt(s, g) = 255 /\ AlphaAt(t, g) = 255
             /\ \E g \in SharedPixels(a, b) :
                  /\ OffCrossRamps(a, g, 4, TRUE)
                  /\ AlphaAt(s, g) = 255 /\ AlphaAt(t, g) = 127
             /\ \E g \in SharedPixels(a, b) :
                  /\ OffCrossRamps(a, g, 4, TRUE)
                  /\ AlphaAt(s, g) = 127 /\ AlphaAt(t, g) = 255

\* the tiles that cover the pixel g
Covering(g) == {t \in 1..Len(plan.chunks) : Covers(plan.chunks[t], g)}

\* every order in which the tiles of S can be painted
PaintOrdersOf(S) ==
    {o \in [1..Cardinality(S) -> S] :
        \A j, k \in 1..Cardinality(S) : j # k => o[j] # o[k]}

\* the pixel g when the tiles covering it are painted in the order o
PixelPainted(g, o) ==
    CompositePixel(LayersAt(g, o, plan.chunks, plan.values, plan.alphas))

\* C16 as stated: compositing is order-independent: every pixel of the
\* output is the same in whatever order the tiles are painted.
C16_OrderIndependent ==
    plan.tag = "composited" =>
        \A g \in DOMAIN plan.canvas :
            \A o \in PaintOrdersOf(Covering(g)) :
                PixelPainted(g, o) = plan.canvas[g]

\* C16 amended: a pixel is the same in every paint order if at most one of
\* the tiles covering it has a non-zero alpha there or if those tiles carry
\* the same value there; otherwise the order decides: the tiles are painted
\* in the order createChunks emitted them, and where the last tile covering
\* a pixel is opaque the pixel is that tile's.
C16_OrderMattersInOverlaps ==
    plan.tag = "composited" =>
        \A g \in DOMAIN plan.canvas :
            LET seen == {t \in Covering(g) : AlphaAt(t, g) > 0}
                last == CHOOSE t \in Covering(g) : \A u \in Covering(g) : u <= t
            IN  /\ (\A t, u \in seen : plan.values[t] = plan.values[u]) =>
                     \A o \in PaintOrdersOf(Covering(g)) :
                         PixelPainted(g, o) = plan.canvas[g]
                /\ Covering(g) # {}
                /\ AlphaAt(last, g) = 255 => plan.canvas[g] = plan.values[last]

\* four tiles of different values around a corner, and a pixel all four
\* cover whose value depends on which is painted last
C16_Witness ==
    /\ plan.tag = "composited"
    /\ Len(plan.chunks) = 4
    /\ \E g \in DOMAIN plan.canvas :
         /\ Covering(g) = 1..4
         /\ \A t \in 1..4 : AlphaAt(t, g) > 0
         /\ \E o \in PaintOrdersOf(Covering(g)) :
              PixelPainted(g, o) # plan.canvas[g]

(***************************************************************************)
(* Properties of a request while models are loaded and unloaded, checked   *)
(* under Spec.                                                             *)
(***************************************************************************)
\* C19: within one accepted request the model and its policy are fixed: the
\* overlap reassembleChunksWithFeathering feathers with is the overlap
\* createChunks planned with, and all the tiles of the request are run on
\* one session.
C19_PolicyFixedWithinRequest ==
    \A c \in Calls :
        /\ req[c].composed => req[c].featherOverlap = req[c].planOverlap
        /\ Cardinality(req[c].sessions) <= 1

\* a request planned under the scunet_ policy whose tiles are feathered with
\* the default overlap, the last of them run on another session than the
\* first
C19_Witness ==
    \E c \in Calls :
        /\ req[c].composed
        /\ req[c].planOverlap = SCUNET_OVERLAP
        /\ req[c].featherOverlap = DEFAULT_OVERLAP
        /\ req[c].sessions = {1, 2}

\* C20: whenever processImage can be accepted (session and modelInfo both
\* set), modelInfo is the result of introspecting the current session and
\* modelName names the model of that session.
C20_ModelInfoOfLoadedModel ==
    (session # NoSession /\ modelInfo # NoInfo) =>
        /\ modelInfo.session = session.id
        /\ modelInfo.model = session.model
        /\ modelName = session.model

\* a request accepted during a reload: the session is the second model's,
\* the ModelInfo still the first's
C20_Witness ==
    /\ session.id = 2 /\ modelInfo.session = 1
    /\ session.model # modelInfo.model
    /\ \E c \in Calls : req[c].pc = "run" /\ req[c].sessions = {2}

\* C21: a processImage call rejected at entry changes nothing: the step that
\* rejects it leaves the busy flag, the ProcessingState, the loaded model, the
\* staging directories and every other call as they were and invokes no
\* progress callback; the ProcessingState goes back to total = 0,
\* completed = 0 only in a step that accepts a call, and every such step
\* sets it so and raises the busy flag.
C21_RejectionChangesNothing ==
    [][/\ \A c \in Calls :
            (req[c].pc = "idle" /\ Rejected(c)') =>
               /\ UNCHANGED <<processing, processingState, session, modelName,
                              modelInfo, staging, ld>>
               /\ req'[c].log = <<>>
               /\ \A d \in Calls \ {c} : req'[d] = req[d]
       /\ ( /\ processingState' # processingState
            /\ processingState'.totalChunks = 0
            /\ processingState'.completedChunks = 0 )
             => \E c \in Calls : ~req[c].accepted /\ req'[c].accepted
       /\ \A c \in Calls :
            (~req[c].accepted /\ req'[c].accepted) =>
               processingState' = FreshState /\ processing'
      ]_vars

\* a call has just been rejected as busy while the second tile of the request
\* in flight is being saved: the counters and the staged files of that
\* request are in place
C21_Witness ==
    \E c, d \in Calls :
        /\ Rejected(c) /\ req[c].error = "busy init" /\ req[c].log = <<>>
        /\ req[d].pc = "save" /\ req[d].i = 2
        /\ processing
        /\ processingState.totalChunks = Len(req[d].chunks)
        /\ processingState.completedChunks = 1
        /\ staging.files # {}

(***************************************************************************)
(* The number, order and staging names of the tiles, checked under         *)
(* SpecBuiltin.                                                            *)
(***************************************************************************)
\* chunk_<x>_<y>.png and processed_<x>_<y>.png (app.ts:446, 384)
StagingNames(chunk) ==
    {StagedFile(ChunkDir(1), chunk), StagedFile(ProcessedDir(1), chunk)}

\* C22: under both built-in policies createChunks emits exactly
\* ceil(W/(T-O)) * ceil(H/(T-O)) tiles in row-major order (no grid cell is
\* skipped as degenerate), distinct tiles have distinct extraction origins,
\* and so no two tiles share a staging file name.
C22_FullGridDistinctNames ==
    plan.tag = "planned" =>
        LET cols == CeilDiv(plan.width, plan.chunkSize - plan.overlap)
            rows == CeilDiv(plan.height, plan.chunkSize - plan.overlap)
            n == Len(plan.chunks)
        IN  /\ n = cols * rows
            /\ \A i \in 1..n :
                 /\ plan.chunks[i].row = (i - 1) \div cols
                 /\ plan.chunks[i].col = (i - 1) % cols
                 /\ plan.chunks[i].width >= 1 /\ plan.chunks[i].height >= 1
            /\ \A i, j \in 1..n :
                 i # j =>
                   /\ <<plan.chunks[i].x, plan.chunks[i].y>>
                        # <<plan.chunks[j].x, plan.chunks[j].y>>
                   /\ StagingNames(plan.chunks[i])
                        \cap StagingNames(plan.chunks[j]) = {}

\* a grid of several rows and at least three columns whose last column
\* reaches one pixel past its grid origin: the narrowest tile there is
C22_Witness ==
    /\ plan.tag = "planned"
    /\ plan.overlap = SCUNET_OVERLAP
    /\ Len(plan.chunks) >= 6
    /\ \E i \in 1..Len(plan.chunks) :
         /\ plan.chunks[i].col >= 2 /\ plan.chunks[i].row >= 1
         /\ plan.width - plan.chunks[i].originalStartX = 1
         /\ plan.chunks[i].width = 1 + plan.overlap \div 2

(***************************************************************************)
(* The feather weights under the built-in policies: createChunks and       *)
(* createFeatheredChunk applied to images of the sizes the policies cut    *)
(* into several tiles, one line of pixels at a time.                       *)
(***************************************************************************)
\* the sides of the images: below both tile sizes, one pixel past the second
\* grid line of either policy, one pixel past the first and the second grid
\* line of the default policy
CoverSides == {500, 2 * (SCUNET_CHUNK_SIZE - SCUNET_OVERLAP) + 1,
               (DEFAULT_CHUNK_SIZE - DEFAULT_OVERLAP) + 1,
               2 * (DEFAULT_CHUNK_SIZE - DEFAULT_OVERLAP) + 1}

\* the rows (axis "row") or columns (axis "col") of the image on which a
\* tile or one of its feather ramps starts or ends
RampEdges(chunks, axis, featherSize) ==
    UNION {LET lo == IF axis = "row" THEN chunks[t].y ELSE chunks[t].x
               len == IF axis = "row" THEN chunks[t].height ELSE chunks[t].width
           IN  {lo, lo + featherSize - 1, lo + featherSize,
                lo + len - featherSize - 1, lo + len - featherSize,
                lo + len - 1} \cap (lo..(lo + len - 1))
           : t \in 1..Len(chunks)}

\* the pixels of the row or the column at
LinePixels(width, height, axis, at) ==
    IF axis = "row" THEN (0..(width - 1)) \X {at} ELSE {at} \X (0..(height - 1))

\* the alpha byte createFeatheredChunk gives the tiles covering the pixel g,
\* the processed tile having the size of its extraction rectangle
WeightsAt(g, chunks, totalWidth, totalHeight, featherSize) ==
    [t \in {u \in 1..Len(chunks) : Covers(chunks[u], g)} |->
        FeatherAlpha(chunks[t], chunks[t].width, chunks[t].height,
                     g[1] - chunks[t].x, g[2] - chunks[t].y,
                     totalWidth, totalHeight, featherSize)]

InitCover ==
    /\ ProcInit
    /\ \E name \in LoadPaths, w \in CoverSides, h \in CoverSides,
          axis \in {"row", "col"} :
         /\ NeedsChunking(w, h, getChunkSizeForModel(name))
         /\ \E at \in RampEdges(CreateChunks(w, h, getChunkSizeForModel(name),
                                             getOverlapForModel(name)),
                                axis, FeatherSize(getOverlapForModel(name))) :
              plan = [tag |-> "line", modelName |-> name, width |-> w,
                      height |-> h, axis |-> axis, at |-> at]

\* the image of plan is cut into tiles (app.ts:357)
Cut ==
    /\ plan.tag = "line"
    /\ plan' = [tag |-> "cut", modelName |-> plan.modelName,
                width |-> plan.width, height |-> plan.height,
                axis |-> plan.axis, at |-> plan.at,
                chunks |-> CreateChunks(plan.width, plan.height,
                                        getChunkSizeForModel(plan.modelName),
                                        getOverlapForModel(plan.modelName))]
    /\ UNCHANGED procVars

\* the tiles are feathered with the overlap of the model (app.ts:564-572)
Weigh ==
    /\ plan.tag = "cut"
    /\ plan' = [tag |-> "weighed", width |-> plan.width,
                height |-> plan.height,
                overlap |-> getOverlapForModel(plan.modelName),
                axis |-> plan.axis, at |-> plan.at, chunks |-> plan.chunks,
                weights |->
                  [g \in LinePixels(plan.width, plan.height, plan.axis,
                                    plan.at) |->
                      WeightsAt(g, plan.chunks, plan.width, plan.height,
                                FeatherSize(getOverlapForModel(plan.modelName)))]]
    /\ UNCHANGED procVars

NextCover == Cut \/ Weigh

SpecCover == InitCover /\ [][NextCover]_vars

\* the pixel with the given weights when tiles of one value are painted on
\* the black canvas in the order o
FlatPainted(weights, o, value) ==
    CompositePixel([k \in 1..Len(o) |->
                      [alpha |-> weights[o[k]], value |-> value]])

\* C23: under both built-in policies every pixel of the output lies inside
\* at least one tile whose alpha byte at that pixel is 255; hence the black
\* canvas contributes to no pixel, whatever the painting order: tiles of one
\* value composite to that value.
C23_EveryPixelFullWeight ==
    plan.tag = "weighed" =>
        \A g \in DOMAIN plan.weights :
            LET w == plan.weights[g] IN
            /\ \E t \in DOMAIN w : w[t] = 255
            /\ \A o \in PaintOrdersOf(DOMAIN w) : FlatPainted(w, o, 40) = 40

\* a line through the corner where four tiles meet, with a pixel at which
\* one tile has full weight and the other three are on their ramps
C23_Witness ==
    /\ plan.tag = "weighed"
    /\ plan.overlap = SCUNET_OVERLAP
    /\ \E g \in DOMAIN plan.weights :
         LET w == plan.weights[g] IN
         /\ Cardinality(DOMAIN w) = 4
         /\ Cardinality({t \in DOMAIN w : w[t] = 255}) = 1
         /\ \A t \in DOMAIN w : w[t] > 0
====
